---- MODULE Spec2Model ----
(***************************************************************************)
(* The client-side router of learn-client-side-routing, in its three       *)
(* stages: solution-one/app.js ("one"), solution/app.js ("sol") and the    *)
(* reusable router() that the README builds and solution-two/app.js uses   *)
(* ("router").  The browser is modelled by its session history (entries    *)
(* and current index), its event listeners and the clickable elements of   *)
(* the page; the JavaScript call stack is explicit, so that a callback     *)
(* that redirects re-enters navigate while its caller waits.  A page may    *)
(* call router() more than once: the registry and the listener functions   *)
(* are kept per instance, the window, the history and #app are shared.     *)
(***************************************************************************)
EXTENDS Integers, Sequences, FiniteSets, TLC

\* ------------------------------------------------------------------ bounds
MaxHist == 4          \* entries the session history may hold
MaxDepth == 7         \* frames the call stack may hold
MaxPopListeners == 2  \* popstate listeners that may be attached
MaxChainHist == 6     \* entries of the history, for pages with redirect chains
MaxChainDepth == 9    \* frames of the stack, for pages with redirect chains

\* ------------------------------------------------------------- vocabulary
None == "none"                     \* JavaScript undefined / null
NoUrl == <<>>                      \* no URL
Origin == "http://localhost"       \* window.location.origin
Progs == {"one", "sol", "router"}

\* A URL string is a sequence of tokens: origin, pathname and, when there is
\* a query, "?", key, "=", value.
Href(path) == <<Origin>> \o path

PathHome == <<"/">>
PathContact == <<"/contact">>
PathPost == <<"/posts", "?", "id", "=", "1">>
PathMissing == <<"/missing">>
PathPosts == <<"/posts">>

\* A parse that loses the query string.
ParseUrlDropsSearch(url) ==
  [ origin   |-> url[1],
    pathname |-> url[2],
    search   |-> <<>>,
    href     |-> <<url[1], url[2]>> ]

\* new URL(url): the parsed URL object
ParseUrl(url) ==
  [ origin   |-> url[1],
    pathname |-> url[2],
    search   |-> SubSeq(url, 3, Len(url)),
    href     |-> <<url[1], url[2]>> \o SubSeq(url, 3, Len(url)) ]

\* url.searchParams.get(key)
SearchParamsGet(parsed, key) ==
  IF Len(parsed.search) = 4 /\ parsed.search[1] = "?" /\ parsed.search[2] = key
  THEN parsed.search[4]
  ELSE None

\* ------------------------------------------------------------ the registry
Callbacks ==
  {"home", "contact", "notFound", "posts", "toContact", "boom", "toPosts", "toHome"}

\* What a route callback does when it runs: it renders, it calls
\* redirect(path), or it throws.
Behaviour(cb) ==
  CASE cb = "toContact" -> [kind |-> "redirect", path |-> PathContact]
    [] cb = "toPosts"   -> [kind |-> "redirect", path |-> PathPosts]
    [] cb = "toHome"    -> [kind |-> "redirect", path |-> PathHome]
    [] cb = "boom"      -> [kind |-> "throw",    path |-> NoUrl]
    [] OTHER            -> [kind |-> "render",   path |-> NoUrl]

\* What a rendering callback leaves in #app.
Render(cb, parsed) ==
  CASE cb = "home"     -> <<"Hello world">>
    [] cb = "contact"  -> <<"Contact us">>
    [] cb = "notFound" -> <<"Page not found">>
    [] cb = "posts"    -> <<"Post", SearchParamsGet(parsed, "id")>>

\* The get(path, callback) calls an application makes.
Registrations ==
  { <<"/", "home">>, <<"/contact", "contact">>, <<"default", "notFound">>,
    <<"/posts", "posts">>, <<"/", "toContact">> }

EmptyRoutes == [k \in {} |-> None]

\* A registration that keeps the callback a path already has.
RoutesSetKeepsFirst(r, path, cb) ==
  [k \in DOMAIN r \cup {path} |-> IF k = path /\ k \notin DOMAIN r THEN cb ELSE r[k]]

\* routes[path] = callback
RoutesSet(r, path, cb) ==
  [k \in DOMAIN r \cup {path} |-> IF k = path THEN cb ELSE r[k]]

\* routes[key], undefined when the key is absent
RoutesGet(r, key) == IF key \in DOMAIN r THEN r[key] ELSE None

\* The routes the scripts of solution-one and solution register on load.
StageRoutes == RoutesSet(RoutesSet(EmptyRoutes, "/", "home"), "/contact", "contact")

\* A lookup with the operands of || swapped: the default route wins.
LookupDefaultFirst(p, r, pathname) ==
  IF p = "router" /\ RoutesGet(r, "default") # None
  THEN RoutesGet(r, "default")
  ELSE RoutesGet(r, pathname)

\* A lookup without the fallback to the default route.
LookupNoFallback(p, r, pathname) == RoutesGet(r, pathname)

\* The callback navigate picks for a pathname: routes[pathname], and in the
\* router routes[pathname] || routes.default.
Lookup(p, r, pathname) ==
  IF p = "router" /\ RoutesGet(r, pathname) = None
  THEN RoutesGet(r, "default")
  ELSE RoutesGet(r, pathname)

\* ------------------------------------------------------------------ the page
\* Clickable elements: the two links of the static nav, the heading and the
\* links a home callback renders into #app.  The home page of an application
\* of the router may nest an element in a link: homePostIcon stands for one
\* inside the link to the post.
StaticElements == {"navHome", "navContact"}

RenderedElements(p, shown) ==
  IF shown = <<>> THEN {}
  ELSE {"h1"} \cup
       (IF shown = <<"Hello world">>
        THEN (IF p = "router" THEN {"homePost", "homePostIcon", "homeGitHub"}
                               ELSE {"homeContact"})
        ELSE {})

Elements(p, shown) == StaticElements \cup RenderedElements(p, shown)

TagName(e) ==
  CASE e = "h1"           -> "H1"
    [] e = "homePostIcon" -> "SPAN"
    [] OTHER              -> "A"

\* The anchor an element is nested in, if any.
EnclosingAnchor(e) == IF e = "homePostIcon" THEN "homePost" ELSE None

ElementHref(e) ==
  CASE e = "navHome"     -> Href(PathHome)
    [] e = "navContact"  -> Href(PathContact)
    [] e = "homeContact" -> Href(PathContact)
    [] e = "homePost"    -> Href(PathPost)
    [] e = "homeGitHub"  -> <<"https://github.com", "/">>
    [] OTHER             -> NoUrl

\* "external" in element.dataset
IsExternal(e) == e = "homeGitHub"

\* The links that exist when the stage scripts run querySelectorAll("a").
BoundLinks == StaticElements


\* ------------------------------------------------------------------- state
\* The router() calls of a page: each call makes a router of its own.  The
\* application under study holds instance 1, which is also the one router
\* of the stage scripts.
Instances == {1, 2}

VARIABLES
  prog,          \* which stage of the router the document runs
  limits,        \* what the browser allows: history entries and stack frames
  routesOf,      \* the registry of each instance: path -> callback
  hist,          \* the session history: the URL of each entry
  idx,           \* the current entry; window.location is hist[idx]
  clickListeners,\* the click listeners of window, in the order attached
  popListeners,  \* the popstate listeners of window, in the order attached
  shown,         \* what #app holds
  lastCb,        \* the most recently invoked route callback
  stack,         \* the JavaScript call stack, innermost frame last
  pending,       \* listeners of the event being dispatched that have yet to run
  ev,            \* the event or API call being handled, or handled last
  log            \* what the handling of ev has done so far, in order

vars == <<prog, limits, routesOf, hist, idx, clickListeners, popListeners, shown, lastCb,
          stack, pending, ev, log>>

\* One handleClick shared by every instance, as a module-level function is.
HandleClickShared(i) == <<"handleClick", 1>>

\* The functions a router() call creates: each instance has a handleClick of
\* its own, and listen makes a new arrow function for popstate.  A listener
\* is the function and the instance whose closure it is.
HandleClickOf(i) == <<"handleClick", i>>

\* The popstate listener listen attaches: a new arrow function on every call.
ListenPopListener(i) == <<"arrow", i>>

\* The registry and the click listener of the application's router.
routes == routesOf[1]

clickOn == \E k \in DOMAIN clickListeners : clickListeners[k] = HandleClickOf(1)

Location == hist[idx]     \* window.location

\* A call of a function of instance i.
Frame(i, fn, url, cb, id) ==
  [inst |-> i, fn |-> fn, pc |-> "start", url |-> url, cb |-> cb, id |-> id]

\* Something instance i did: op, with the call or navigation it belongs to.
EntryOf(i, op, url, cb, by) ==
  [inst |-> i, op |-> op, url |-> url, cb |-> cb, by |-> by]

Entry(op, url, cb, by) == EntryOf(1, op, url, cb, by)

\* The event being handled: its kind, the element clicked, whether the click
\* was a plain one (primary button, no modifier key held), whether
\* preventDefault was called, and the history as it was when the handling began.
Event(kind, target, plain, prevented) ==
  [ kind |-> kind, target |-> target, plain |-> plain,
    prevented |-> prevented, hist0 |-> hist, idx0 |-> idx, inst |-> 0 ]

\* A call of get, listen or close on instance i.
ApiCall(i, kind) == [Event(kind, None, FALSE, FALSE) EXCEPT !.inst = i]

Idle == stack = <<>> /\ pending = <<>>

Top == stack[Len(stack)]

Pop(s) == SubSeq(s, 1, Len(s) - 1)

\* A caller that is where it was when its callee returns.
AdvanceStays(s, pc) == s

\* The top frame moves to program point pc.
Advance(s, pc) == [s EXCEPT ![Len(s)].pc = pc]

\* window.history.pushState(null, null, url): the entries after the current
\* one are dropped and the new entry becomes the current one.
PushState(h, i, url) == Append(SubSeq(h, 1, i), url)

InitialUrls == {Href(PathHome), Href(PathMissing)}

Init ==
  /\ prog \in Progs
  /\ routesOf = [i \in Instances |->
                   IF prog # "router" /\ i = 1 THEN StageRoutes ELSE EmptyRoutes]
  /\ limits = [hist |-> MaxHist, depth |-> MaxDepth]
  /\ hist \in {<<u>> : u \in InitialUrls}
  /\ idx = 1
  /\ clickListeners = <<>>
  /\ popListeners = IF prog = "router" THEN <<>> ELSE <<ListenPopListener(1)>>
  /\ shown = <<>>
  /\ lastCb = None
  /\ stack = <<>>
  /\ pending = <<>>
  /\ ev = [ kind |-> "load", target |-> None, plain |-> FALSE,
            prevented |-> FALSE, hist0 |-> hist, idx0 |-> 1, inst |-> 0 ]
  /\ log = <<>>

\* ------------------------------------------------------------ registration
\* get(path, callback), as an application of the router calls it.  The
\* scripts of solution-one and solution call get only while they load.
Get(i, path, cb) ==
  /\ prog = "router"
  /\ Idle
  /\ routesOf' = [routesOf EXCEPT ![i] = RoutesSet(routesOf[i], path, cb)]
  /\ ev' = ApiCall(i, "get")
  /\ log' = << EntryOf(i, "get", <<path>>, cb, 0) >>
  /\ UNCHANGED <<prog, limits, hist, idx, clickListeners, popListeners, shown, lastCb, stack, pending>>

\* ------------------------------------------------------------------ clicks
Buttons == {0, 1}
Modifiers == {None, "meta", "shift", "alt", "ctrl"}

\* A window-level handler that does not look at the tag of the target.
InterceptsAnyTag(p, on, e, button, mod) ==
  IF p = "router"
  THEN /\ on
       /\ ~(IsExternal(e) \/ button # 0 \/ mod # None)
  ELSE e \in BoundLinks

\* A window-level handler that does not look for the external marker.
InterceptsMarkedToo(p, on, e, button, mod) ==
  IF p = "router"
  THEN /\ on
       /\ ~(button # 0 \/ mod # None)
       /\ TagName(e) = "A"
  ELSE e \in BoundLinks

\* Whether a click listener of the stage runs for the click and goes on to
\* preventDefault and navigate.
Intercepts(p, on, e, button, mod) ==
  IF p = "router"
  THEN /\ on
       /\ ~(IsExternal(e) \/ button # 0 \/ mod # None)
       /\ TagName(e) = "A"
  ELSE e \in BoundLinks

\* A click handler that pushes the href in every stage.
ClickAlwaysPushes(p) == TRUE

\* handleClick pushes the href itself in solution-one only.
ClickPushes(p) == p = "one"

\* A click on element e of the page.  A click that no listener intercepts is
\* left to the browser (ev.prevented stays FALSE); the document the browser
\* may then load is another run of the script and is not followed here.
Click(e, button, mod) ==
  /\ Idle
  /\ e \in Elements(prog, shown)
  /\ LET listeners == IF prog = "router" THEN clickListeners ELSE << HandleClickOf(1) >>
         i == Head(listeners)[2]
     IN
     IF Intercepts(prog, clickListeners # <<>>, e, button, mod)
     THEN /\ ev' = Event("click", e, button = 0 /\ mod = None, TRUE)
          /\ pending' = Tail(listeners)
          /\ IF ClickPushes(prog)
             THEN /\ idx < limits.hist
                  /\ hist' = PushState(hist, idx, ElementHref(e))
                  /\ idx' = idx + 1
                  /\ log' = << EntryOf(i, "push", ElementHref(e), None, 0),
                               EntryOf(i, "nav", ElementHref(e), None, 0) >>
                  /\ stack' = << Frame(i, "navigate", ElementHref(e), None, 2) >>
             ELSE /\ UNCHANGED <<hist, idx>>
                  /\ log' = << EntryOf(i, "nav", ElementHref(e), None, 0) >>
                  /\ stack' = << Frame(i, "navigate", ElementHref(e), None, 1) >>
     ELSE /\ ev' = Event("click", e, button = 0 /\ mod = None, FALSE)
          /\ log' = <<>>
          /\ UNCHANGED <<hist, idx, stack, pending>>
  /\ UNCHANGED <<prog, limits, routesOf, clickListeners, popListeners, shown, lastCb>>

\* The handleClick of the next instance runs for the click being dispatched:
\* the listeners of window run one after the other, in the order attached.
HandleNextClick ==
  /\ prog = "router"
  /\ stack = <<>>
  /\ pending # <<>>
  /\ Head(pending)[1] = "handleClick"
  /\ pending' = Tail(pending)
  /\ log' = Append(log, EntryOf(Head(pending)[2], "nav", ElementHref(ev.target), None, 0))
  /\ stack' = << Frame(Head(pending)[2], "navigate", ElementHref(ev.target), None, Len(log) + 1) >>
  /\ UNCHANGED <<prog, limits, routesOf, hist, idx, clickListeners, popListeners, shown, lastCb, ev>>

\* ------------------------------------------------------- back and forward
\* The user presses back (delta = -1) or forward (delta = 1): the browser
\* moves the current entry, then fires popstate at every listener.
Traverse(delta) ==
  /\ Idle
  /\ idx + delta \in 1..Len(hist)
  /\ idx' = idx + delta
  /\ pending' = popListeners
  /\ ev' = [Event("pop", None, FALSE, FALSE) EXCEPT !.idx0 = idx + delta]
  /\ log' = <<>>
  /\ UNCHANGED <<prog, limits, routesOf, hist, clickListeners, popListeners, shown, lastCb, stack>>

\* The next popstate listener runs: navigate(window.location).
HandlePop ==
  /\ stack = <<>>
  /\ pending # <<>>
  /\ Head(pending)[1] = "arrow"
  /\ pending' = Tail(pending)
  /\ log' = Append(log, EntryOf(Head(pending)[2], "nav", Location, None, 0))
  /\ stack' = << Frame(Head(pending)[2], "navigate", Location, None, Len(log) + 1) >>
  /\ UNCHANGED <<prog, limits, routesOf, hist, idx, clickListeners, popListeners, shown, lastCb, ev>>

\* ---------------------------------------------------------------- lifecycle
\* addEventListener(type, l): a function already attached is not attached
\* again; an arrow function expression is a different function every time
\* it is evaluated.
AddEventListener(ls, l) ==
  IF l[1] # "arrow" /\ \E k \in DOMAIN ls : ls[k] = l THEN ls ELSE Append(ls, l)

\* removeEventListener(type, l)
RemoveEventListener(ls, l) == SelectSeq(ls, LAMBDA x : x # l)

\* listen() of instance i
Listen(i) ==
  /\ prog = "router"
  /\ Idle
  /\ Len(popListeners) < MaxPopListeners
  /\ clickListeners' = AddEventListener(clickListeners, HandleClickOf(i))
  /\ popListeners' = AddEventListener(popListeners, ListenPopListener(i))
  /\ ev' = ApiCall(i, "listen")
  /\ log' = << EntryOf(i, "nav", Location, None, 0) >>
  /\ stack' = << Frame(i, "navigate", Location, None, 1) >>
  /\ UNCHANGED <<prog, limits, routesOf, hist, idx, shown, lastCb, pending>>

\* removeEventListener("popstate", handlePop)
RemovePop(ls) == SelectSeq(ls, LAMBDA l : l[1] # "handlePop")

\* close() of instance i
Close(i) ==
  /\ prog = "router"
  /\ Idle
  /\ clickListeners' = RemoveEventListener(clickListeners, HandleClickOf(i))
  /\ popListeners' = RemovePop(popListeners)
  /\ ev' = ApiCall(i, "close")
  /\ log' = <<>>
  /\ UNCHANGED <<prog, limits, routesOf, hist, idx, shown, lastCb, stack, pending>>


\* ------------------------------------------------------------- navigation
\* A navigate that never pushes.
NavigateNeverPushes(p) == FALSE

\* A navigate that pushes in the router only.
NavigatePushesInRouterOnly(p) == p = "router"

\* navigate in solution/app.js and in the router pushes the URL itself.
NavigatePushes(p) == p # "one"

\* An exception caught by the innermost caller, which carries on.
ThrowCaught(what, id) ==
  /\ stack' = Pop(stack)
  /\ log' = Append(log, EntryOf(Top.inst, "throw", NoUrl, what, id))

\* An uncaught exception unwinds the whole stack: nothing in the router
\* catches.
Throw(what, id) ==
  /\ stack' = <<>>
  /\ log' = Append(log, EntryOf(Top.inst, "throw", NoUrl, what, id))

\* navigate(url), one program point at a time:
\*   start  parse the URL, find the callback, push the history entry
\*   call   invoke the callback
\*   ret    the callback has returned; navigate returns
Navigate ==
  /\ stack # <<>>
  /\ Top.fn = "navigate"
  /\ LET parsedUrl == ParseUrl(Top.url)
         callback == Lookup(prog, routesOf[Top.inst], parsedUrl.pathname)
     IN
     \/ /\ Top.pc = "start"
        /\ IF NavigatePushes(prog)
           THEN /\ idx < limits.hist
                /\ hist' = PushState(hist, idx, parsedUrl.href)
                /\ idx' = idx + 1
                /\ log' = Append(log, EntryOf(Top.inst, "push", parsedUrl.href, None, Top.id))
           ELSE UNCHANGED <<hist, idx, log>>
        /\ stack' = [stack EXCEPT ![Len(stack)].pc = "call", ![Len(stack)].cb = callback]
        /\ UNCHANGED <<shown, lastCb>>
     \/ /\ Top.pc = "call"
        /\ IF Top.cb = None
           THEN /\ Throw("TypeError", Top.id)
                /\ UNCHANGED lastCb
           ELSE /\ Len(stack) < limits.depth
                /\ log' = Append(log, EntryOf(Top.inst, "call", Top.url, Top.cb, Top.id))
                /\ stack' = Append(Advance(stack, "ret"),
                                   Frame(Top.inst, "callback", Top.url, Top.cb, Len(log) + 1))
                /\ lastCb' = Top.cb
        /\ UNCHANGED <<hist, idx, shown>>
     \/ /\ Top.pc = "ret"
        /\ log' = Append(log, EntryOf(Top.inst, "navret", Top.url, None, Top.id))
        /\ stack' = Pop(stack)
        /\ UNCHANGED <<hist, idx, shown, lastCb>>
  /\ UNCHANGED <<prog, limits, routesOf, clickListeners, popListeners, pending, ev>>

\* The body of a route callback.
Callback ==
  /\ stack # <<>>
  /\ Top.fn = "callback"
  /\ LET does == Behaviour(Top.cb) IN
     \/ /\ does.kind = "render"
        /\ shown' = Render(Top.cb, ParseUrl(Top.url))
        /\ log' = Append(log, EntryOf(Top.inst, "ret", Top.url, Top.cb, Top.id))
        /\ stack' = Pop(stack)
     \/ /\ does.kind = "redirect"
        /\ Top.pc = "start"
        /\ Len(stack) < limits.depth
        /\ log' = Append(log, EntryOf(Top.inst, "redirect", does.path, Top.cb, Top.id))
        /\ stack' = Append(Advance(stack, "ret"),
                           Frame(Top.inst, "redirect", does.path, Top.cb, Len(log) + 1))
        /\ UNCHANGED shown
     \/ /\ does.kind = "redirect"
        /\ Top.pc = "ret"
        /\ log' = Append(log, EntryOf(Top.inst, "ret", Top.url, Top.cb, Top.id))
        /\ stack' = Pop(stack)
        /\ UNCHANGED shown
     \/ /\ does.kind = "throw"
        /\ Throw("Error", Top.id)
        /\ UNCHANGED shown
  /\ UNCHANGED <<prog, limits, routesOf, hist, idx, clickListeners, popListeners, lastCb, pending, ev>>

\* redirect pushes the URL before it calls navigate.
RedirectPushes == TRUE

\* redirect(path): build the URL from the origin, push it, navigate to it.
Redirect ==
  /\ stack # <<>>
  /\ Top.fn = "redirect"
  /\ LET url == <<Origin>> \o Top.url IN
     \/ /\ Top.pc = "start"
        /\ Len(stack) < limits.depth
        /\ IF RedirectPushes
           THEN /\ idx < limits.hist
                /\ hist' = PushState(hist, idx, url)
                /\ idx' = idx + 1
                /\ log' = log \o << EntryOf(Top.inst, "push", url, None, Top.id),
                                    EntryOf(Top.inst, "nav", url, None, Top.id) >>
                /\ stack' = Append(Advance(stack, "ret"),
                                   Frame(Top.inst, "navigate", url, None, Len(log) + 2))
           ELSE /\ UNCHANGED <<hist, idx>>
                /\ log' = Append(log, EntryOf(Top.inst, "nav", url, None, Top.id))
                /\ stack' = Append(Advance(stack, "ret"),
                                   Frame(Top.inst, "navigate", url, None, Len(log) + 1))
     \/ /\ Top.pc = "ret"
        /\ log' = Append(log, EntryOf(Top.inst, "redirectret", Top.url, None, Top.id))
        /\ stack' = Pop(stack)
        /\ UNCHANGED <<hist, idx>>
  /\ UNCHANGED <<prog, limits, routesOf, clickListeners, popListeners, shown, lastCb, pending, ev>>

\* ------------------------------------------------------------ specification
Next ==
  \/ \E r \in Registrations : Get(1, r[1], r[2])
  \/ \E e \in StaticElements \cup {"h1", "homeContact", "homePost", "homePostIcon", "homeGitHub"},
        button \in Buttons, mod \in Modifiers : Click(e, button, mod)
  \/ \E delta \in {-1, 1} : Traverse(delta)
  \/ HandlePop
  \/ Listen(1)
  \/ Close(1)
  \/ Navigate
  \/ Callback
  \/ Redirect

Spec == Init /\ [][Next]_vars

\* ------------------------------------------- applications whose callback throws
\* The get(path, callback) calls of an application whose contact page throws.
ThrowRegistrations ==
  { <<"/", "home">>, <<"/contact", "boom">>, <<"/", "toContact">> }

\* The stage scripts with a contact callback that throws.
StageRoutesThrow == RoutesSet(RoutesSet(EmptyRoutes, "/", "home"), "/contact", "boom")

InitThrow ==
  /\ prog \in Progs
  /\ routesOf = [i \in Instances |->
                   IF prog # "router" /\ i = 1 THEN StageRoutesThrow ELSE EmptyRoutes]
  /\ limits = [hist |-> MaxHist, depth |-> MaxDepth]
  /\ hist \in {<<u>> : u \in InitialUrls}
  /\ idx = 1
  /\ clickListeners = <<>>
  /\ popListeners = IF prog = "router" THEN <<>> ELSE <<ListenPopListener(1)>>
  /\ shown = <<>>
  /\ lastCb = None
  /\ stack = <<>>
  /\ pending = <<>>
  /\ ev = [ kind |-> "load", target |-> None, plain |-> FALSE,
            prevented |-> FALSE, hist0 |-> hist, idx0 |-> 1, inst |-> 0 ]
  /\ log = <<>>

NextThrow ==
  \/ \E r \in ThrowRegistrations : Get(1, r[1], r[2])
  \/ \E e \in StaticElements \cup {"h1", "homeContact", "homePost", "homePostIcon", "homeGitHub"},
        button \in Buttons, mod \in Modifiers : Click(e, button, mod)
  \/ \E delta \in {-1, 1} : Traverse(delta)
  \/ HandlePop
  \/ Listen(1)
  \/ Close(1)
  \/ Navigate
  \/ Callback
  \/ Redirect

SpecThrow == InitThrow /\ [][NextThrow]_vars

\* ------------------------------------------------- a page with two routers
\* The get(instance, path, callback) calls of a page that makes two routers:
\* both register "/", with different callbacks.
TwoRegistrations ==
  { <<1, "/", "home">>, <<1, "/contact", "contact">>,
    <<2, "/", "toContact">>, <<2, "default", "notFound">> }

InitTwo ==
  /\ prog = "router"
  /\ routesOf = [i \in Instances |-> EmptyRoutes]
  /\ limits = [hist |-> MaxHist, depth |-> MaxDepth]
  /\ hist \in {<<u>> : u \in InitialUrls}
  /\ idx = 1
  /\ clickListeners = <<>>
  /\ popListeners = <<>>
  /\ shown = <<>>
  /\ lastCb = None
  /\ stack = <<>>
  /\ pending = <<>>
  /\ ev = [ kind |-> "load", target |-> None, plain |-> FALSE,
            prevented |-> FALSE, hist0 |-> hist, idx0 |-> 1, inst |-> 0 ]
  /\ log = <<>>

NextTwo ==
  \/ \E r \in TwoRegistrations : Get(r[1], r[2], r[3])
  \/ \E e \in StaticElements \cup {"h1", "homeGitHub"},
        button \in Buttons, mod \in {None, "meta"} : Click(e, button, mod)
  \/ HandleNextClick
  \/ \E delta \in {-1, 1} : Traverse(delta)
  \/ HandlePop
  \/ \E i \in Instances : Listen(i)
  \/ \E i \in Instances : Close(i)
  \/ Navigate
  \/ Callback
  \/ Redirect

SpecTwo == InitTwo /\ [][NextTwo]_vars

\* ------------------------------------------- applications that chain redirects
\* The get(path, callback) calls of an application whose callbacks redirect:
\* "/" to /contact, and /contact either on to /posts, which renders, or back
\* to "/".
ChainRegistrations ==
  { <<"/", "toContact">>, <<"/contact", "toPosts">>, <<"/posts", "posts">>,
    <<"/contact", "toHome">> }

InitChain ==
  /\ prog = "router"
  /\ limits = [hist |-> MaxChainHist, depth |-> MaxChainDepth]
  /\ routesOf = [i \in Instances |-> EmptyRoutes]
  /\ hist = << Href(PathHome) >>
  /\ idx = 1
  /\ clickListeners = <<>>
  /\ popListeners = <<>>
  /\ shown = <<>>
  /\ lastCb = None
  /\ stack = <<>>
  /\ pending = <<>>
  /\ ev = [ kind |-> "load", target |-> None, plain |-> FALSE,
            prevented |-> FALSE, hist0 |-> hist, idx0 |-> 1, inst |-> 0 ]
  /\ log = <<>>

NextChain ==
  \/ \E r \in ChainRegistrations : Get(1, r[1], r[2])
  \/ \E e \in StaticElements, button \in Buttons : Click(e, button, None)
  \/ \E delta \in {-1, 1} : Traverse(delta)
  \/ HandlePop
  \/ Listen(1)
  \/ Close(1)
  \/ Navigate
  \/ Callback
  \/ Redirect

\* A handler runs to completion: the functions on the stack keep executing.
SpecChain ==
  /\ InitChain /\ [][NextChain]_vars
  /\ WF_vars(Navigate) /\ WF_vars(Callback) /\ WF_vars(Redirect)


\* ======================================================================
\* Properties
\* ======================================================================
\* The pathname of a URL string.
PathnameOf(url) == url[2]

\* What the registry resolves for a pathname: the exact match, else the
\* "default" entry, else nothing.
Resolves(r, pathname) ==
  IF pathname \in DOMAIN r THEN r[pathname]
  ELSE IF "default" \in DOMAIN r THEN r["default"]
  ELSE None

\* The router is listening: its click and popstate listeners are attached.
\* The stage scripts attach theirs while they load.
Listening == IF prog = "router" THEN clickOn /\ popListeners # <<>> ELSE TRUE

\* The positions of the log that hold an operation of the given kind.
Indices(op) == {i \in DOMAIN log : log[i].op = op}

\* The event being handled is a navigation: an intercepted click, a pop or
\* the first pass of listen.
NavigationEvent ==
  \/ ev.kind = "click" /\ ev.prevented
  \/ ev.kind \in {"pop", "listen"}

\* The navigation logged at position n belongs to the event itself, not to a
\* redirect made by a callback.
IsRootNav(n) == n \in Indices("nav") /\ log[n].by = 0

\* The pushState calls made for the navigation the event itself starts: by
\* the click handler, or by the navigate it calls.
RootPushes ==
  {i \in Indices("push") : log[i].by = 0 \/ IsRootNav(log[i].by)}

\* The pushState calls made on behalf of the redirect logged at position r:
\* by redirect itself, or by the navigate it calls.
PushesOf(r) ==
  {i \in Indices("push") :
     \/ log[i].by = r
     \/ log[i].by # 0 /\ log[log[i].by].op = "nav" /\ log[log[i].by].by = r}

\* The callback invocations made by the navigation logged at position n.
CallsOf(n) == {i \in Indices("call") : log[i].by = n}

\* C1: once a navigation event (intercepted click, pop, first pass of listen)
\* has been handled without an unresolved pathname, and the router is
\* listening, the most recently invoked callback is the one the registry
\* resolves for the pathname of window.location.  (The stage scripts invoke
\* no callback while they load, so the property starts with the first event.)
C1_HistoryAndContentInSync ==
  (Idle /\ Listening /\ NavigationEvent /\ Indices("throw") = {})
    => lastCb = Resolves(routes, PathnameOf(Location))

C1_Witness ==
  /\ Idle /\ Listening /\ ev.kind = "pop" /\ Indices("throw") = {}
  /\ Indices("call") # {}
  /\ lastCb = Resolves(routes, PathnameOf(Location))
  /\ PathnameOf(Location) \notin DOMAIN routes

\* C2: the navigation a popstate event triggers pushes no history entry:
\* unless a callback redirects, the history stays as the browser left it
\* (same entries, same length, same current entry) while and after the event
\* is handled.
C2_PopAddsNoEntry ==
  ev.kind = "pop" =>
    /\ RootPushes = {}
    /\ Indices("redirect") = {} => (hist = ev.hist0 /\ idx = ev.idx0)

\* C3: an intercepted click pushes exactly one history entry for its own
\* navigation, the href of the clicked anchor, right after the entry that was
\* current; when no callback redirects, that entry is all the click adds.
C3_ClickAddsOneEntry ==
  (Idle /\ ev.kind = "click" /\ ev.prevented) =>
    /\ Cardinality(RootPushes) = 1
    /\ \A i \in RootPushes : log[i].url = ElementHref(ev.target)
    /\ Len(hist) > ev.idx0
    /\ SubSeq(hist, 1, ev.idx0 + 1) =
         Append(SubSeq(ev.hist0, 1, ev.idx0), ElementHref(ev.target))
    /\ Indices("redirect") = {} =>
         (Len(hist) = ev.idx0 + 1 /\ idx = ev.idx0 + 1)

C3_Witness ==
  /\ Idle /\ ev.kind = "click" /\ ev.prevented
  /\ ev.target = "navContact"
  /\ hist = Append(SubSeq(ev.hist0, 1, ev.idx0), Href(PathContact))
  /\ idx = Len(hist)

\* C4: a back or forward press (no callback redirecting) keeps every entry of
\* the history, those ahead of the one it lands on included, and renders the
\* callback of the entry it lands on, so that k back presses and then k
\* forward presses lead back to the last clicked URL.
C4_BackKeepsForwardEntries ==
  (/\ Idle /\ ev.kind = "pop" /\ popListeners # <<>>
   /\ Indices("throw") = {} /\ Indices("redirect") = {}) =>
    /\ lastCb = Resolves(routes, PathnameOf(ev.hist0[ev.idx0]))
    /\ Len(hist) >= Len(ev.hist0)
    /\ \A k \in 1..Len(ev.hist0) : hist[k] = ev.hist0[k]

\* C5: a redirect that has returned has added exactly one history entry, and
\* the callback resolved for its path was invoked and returned before it did.
C5_RedirectAddsOneEntry ==
  \A i \in Indices("redirectret") :
    LET r == log[i].by IN
    /\ Cardinality(PushesOf(r)) = 1
    /\ \E c \in Indices("call"), d \in Indices("ret") :
         /\ log[log[c].by].by = r
         /\ log[c].cb = Resolves(routes, log[r].url[1])
         /\ log[d].by = c
         /\ r < c /\ c < d /\ d < i

\* C6: listen navigates once to window.location, invoking the callback
\* resolved for it, and pushes nothing for that pass: unless the callback
\* redirects, the history after listen is the history before it.
C6_ListenAddsNoEntry ==
  (Idle /\ ev.kind = "listen") =>
    /\ Cardinality(Indices("nav") \cap {n \in DOMAIN log : log[n].by = 0}) = 1
    /\ RootPushes = {}
    /\ Indices("redirect") = {} => (hist = ev.hist0 /\ idx = ev.idx0)

\* C7: a navigation to a registered pathname invokes the callback registered
\* for it and no other, at most once while it runs and exactly once by the
\* time the triggering event has been handled.
C7_RegisteredCallbackOnce ==
  \A n \in Indices("nav") :
    PathnameOf(log[n].url) \in DOMAIN routes =>
      /\ \A c \in CallsOf(n) : log[c].cb = routes[PathnameOf(log[n].url)]
      /\ Cardinality(CallsOf(n)) <= 1
      /\ Idle => Cardinality(CallsOf(n)) = 1

C7_Witness ==
  /\ Idle
  /\ \E n \in Indices("nav") :
       /\ PathnameOf(log[n].url) \in DOMAIN routes
       /\ "default" \in DOMAIN routes
       /\ Cardinality(CallsOf(n)) = 1
       /\ log[n].by # 0

\* C8: a navigation to a pathname that has no route, while a "default" route
\* is registered, invokes the default callback and no other.
C8_DefaultCallback ==
  \A n \in Indices("nav") :
    (PathnameOf(log[n].url) \notin DOMAIN routes /\ "default" \in DOMAIN routes) =>
      /\ \A c \in CallsOf(n) : log[c].cb = routes["default"]
      /\ Cardinality(CallsOf(n)) <= 1
      /\ Idle => Cardinality(CallsOf(n)) = 1

C8_Witness ==
  /\ Idle
  /\ \E n \in Indices("nav") :
       /\ PathnameOf(log[n].url) \notin DOMAIN routes
       /\ "default" \in DOMAIN routes
       /\ \E c \in CallsOf(n) : log[c].cb = "notFound"
       /\ shown = <<"Page not found">>

\* C9: a navigation to a pathname that resolves to no callback invokes
\* nothing and raises nothing.
C9_UnresolvedIsSilent ==
  \A n \in Indices("nav") :
    Resolves(routes, PathnameOf(log[n].url)) = None =>
      /\ CallsOf(n) = {}
      /\ \A t \in Indices("throw") : log[t].by # n

\* C10: while the router is closed, none of its listeners is attached: a
\* click is not intercepted and a pop dispatches no callback.
C10_ClosedMeansDetached ==
  (prog = "router" /\ ~clickOn) =>
    /\ popListeners = <<>>
    /\ ev.kind \in {"click", "pop"} =>
         (~ev.prevented /\ log = <<>> /\ stack = <<>> /\ pending = <<>>)

\* The click being handled changed nothing: default not prevented, nothing
\* pushed, no navigation started, no callback invoked.
ClickLeftAlone ==
  /\ ~ev.prevented
  /\ log = <<>>
  /\ stack = <<>>
  /\ hist = ev.hist0 /\ idx = ev.idx0

\* C11: a click with a non-primary button or with a modifier key held is left
\* alone: default is not prevented, nothing is pushed, no callback is invoked.
C11_ModifiedClickLeftAlone ==
  (ev.kind = "click" /\ ~ev.plain) => ClickLeftAlone

\* The stage handles clicks: the router between listen and close, the stage
\* scripts from the moment they have loaded.
HandlesClicks == IF prog = "router" THEN clickOn ELSE TRUE

\* C12: while clicks are handled, a plain click on an anchor (one without the
\* external marker) is intercepted and navigates to the anchor's href, also
\* when the anchor was rendered by a route callback.
C12_EveryAnchorIntercepted ==
  (/\ ev.kind = "click" /\ ev.plain /\ HandlesClicks
   /\ TagName(ev.target) = "A" /\ ~IsExternal(ev.target)) =>
    /\ ev.prevented
    /\ \E n \in Indices("nav") : log[n].by = 0 /\ log[n].url = ElementHref(ev.target)

\* C13: a listen() called while the router is already listening attaches no
\* further listener: the popstate listeners stay as they were (and so one pop
\* still runs one navigation).
C13_ListenAgainAddsNoListener ==
  [][(Idle /\ clickOn /\ popListeners # <<>> /\ ev'.kind = "listen")
       => popListeners' = popListeners]_vars

\* A navigate call has just returned: its return is the last thing logged.
NavigationCompleted == log # <<>> /\ log[Len(log)].op = "navret"

\* The navigation that has just completed, as a position of the log.
CompletedNav == log[Len(log)].by

\* The last navigation started since navigation n started: n itself, or the
\* one a redirect of its callback made.
LastNavSince(n) ==
  CHOOSE m \in Indices("nav") :
    m >= n /\ \A k \in Indices("nav") : k <= m

\* C14 as stated: once a navigation has completed, the pathname of the
\* location is the pathname of the URL that was navigated to, redirects
\* included.
C14_LocationIsNavigatedUrl ==
  NavigationCompleted =>
    PathnameOf(Location) = PathnameOf(log[CompletedNav].url)

\* C14, amended: once a navigation has completed, the pathname of the location
\* is the pathname of the URL navigated to or, when its callback redirected,
\* the pathname of the redirect's target.
C14_LocationFollowsNavigation ==
  NavigationCompleted =>
    PathnameOf(Location) = PathnameOf(log[LastNavSince(CompletedNav)].url)

C14_Witness ==
  /\ NavigationCompleted
  /\ ev.kind = "pop"
  /\ CompletedNav = 1
  /\ Indices("redirect") # {}
  /\ PathnameOf(log[1].url) = "/"
  /\ PathnameOf(Location) = "/contact"

\* C15: a registration replaces whatever the path had: right after
\* get(p, c) the registry holds c for p and is unchanged elsewhere, nothing
\* but a get changes the registry, and every callback invoked for a
\* registered pathname is the one the registry holds for it at that moment.
\* So after get(p, c1) and get(p, c2) a navigation to p invokes c2, never c1.
C15_LaterRegistrationWins ==
  [][LET GetStep == Idle /\ ev'.kind = "get"
         path == log'[1].url[1]
     IN /\ GetStep =>
             /\ DOMAIN routes' = DOMAIN routes \cup {path}
             /\ routes'[path] = log'[1].cb
             /\ \A k \in DOMAIN routes \ {path} : routes'[k] = routes[k]
        /\ ~GetStep => routes' = routes
        /\ \A i \in DOMAIN log' :
             (log'[i].op = "call" /\ PathnameOf(log'[i].url) \in DOMAIN routes')
               => log'[i].cb = routes'[PathnameOf(log'[i].url)]
    ]_vars

\* "/" was registered with home, which rendered; then "/" was registered with
\* the redirecting callback, and a click on the home link invokes that one.
C15_Witness ==
  /\ ev.kind = "click"
  /\ shown = <<"Hello world">>
  /\ routes["/"] = "toContact"
  /\ \E i \in Indices("call") : log[i].url = Href(PathHome) /\ log[i].cb = "toContact"

\* C16: the lookup uses the pathname only and the callback gets the parsed
\* URL with its query: a navigation to /posts?id=1, with /posts registered,
\* invokes the callback registered for /posts, and when that callback is the
\* posts page, what it has rendered on return is the post that
\* searchParams.get("id") = "1" names.
C16_QueryReachesCallback ==
  \A n \in Indices("nav") :
    (log[n].url = Href(PathPost) /\ "/posts" \in DOMAIN routes) =>
      /\ \A c \in CallsOf(n) : log[c].cb = routes["/posts"]
      /\ Idle => CallsOf(n) # {}
      /\ \A c \in CallsOf(n) :
           (log[c].cb = "posts" /\ log[Len(log)] = Entry("ret", Href(PathPost), "posts", c))
             => shown = <<"Post", "1">>

C16_Witness ==
  /\ ev.kind = "click" /\ ev.target = "homePost"
  /\ "default" \in DOMAIN routes
  /\ log # <<>>
  /\ log[Len(log)] = Entry("ret", Href(PathPost), "posts", 3)
  /\ shown = <<"Post", "1">>

\* C19: a click whose target is not itself an anchor, an element nested in
\* an anchor included, is left alone: default is not prevented, nothing is
\* pushed, no callback is invoked.
C19_NonAnchorTargetIgnored ==
  (ev.kind = "click" /\ TagName(ev.target) # "A") => ClickLeftAlone

\* A plain click, while the router handles clicks, on the element nested in
\* the link to the post.
C19_Witness ==
  /\ prog = "router" /\ clickOn
  /\ ev.kind = "click" /\ ev.plain
  /\ EnclosingAnchor(ev.target) = "homePost"
  /\ ClickLeftAlone

\* C20: a click on an anchor that carries the external marker is left alone
\* whatever the button and the modifier keys: default is not prevented,
\* nothing is pushed, no callback is invoked.
C20_ExternalLinkBypassed ==
  (ev.kind = "click" /\ IsExternal(ev.target)) => ClickLeftAlone

\* A plain click, while the router handles clicks, on the GitHub link the
\* home page renders.
C20_Witness ==
  /\ prog = "router" /\ clickOn
  /\ ev.kind = "click" /\ ev.plain
  /\ ev.target = "homeGitHub"
  /\ ClickLeftAlone

\* The positions of the log where a route callback threw.
CallbackThrows == {t \in Indices("throw") : log[t].cb = "Error"}

\* The pushState calls made for navigation n before position c of the log:
\* by navigate itself, or by the click handler or the redirect that called it.
PushedBefore(n, c) ==
  {i \in Indices("push") :
     /\ i < c
     /\ log[i].url = log[n].url
     /\ log[i].by = n \/ (log[i].by = log[n].by /\ i = n - 1)}

\* C18: a throw of a route callback is not caught: neither the callback nor
\* the navigation that invoked it returns, and when the throw is the last
\* thing done the call stack is empty; a click or a first pass of listen ends
\* there.  When the navigation is that of a click or of a redirect, the entry
\* pushed for it was pushed before the callback was invoked and stays: the
\* location is the URL navigated to, it is the last entry of the history, and
\* every push made while the event was handled is still there.
C18_CallbackThrowPropagates ==
  \A t \in CallbackThrows :
    LET c == log[t].by
        n == log[c].by
    IN /\ log[c].op = "call" /\ log[n].op = "nav"
       /\ ~\E i \in DOMAIN log :
            \/ log[i].op = "ret" /\ log[i].by = c
            \/ log[i].op = "navret" /\ log[i].by = n
            \/ log[i].op = "redirectret" /\ i > t /\ log[i].by < t
       /\ ev.kind \in {"click", "listen"} => t = Len(log)
       /\ t = Len(log) => stack = <<>>
       /\ (t = Len(log) /\ (ev.kind = "click" \/ log[n].by # 0)) =>
            /\ PushedBefore(n, c) # {}
            /\ Location = log[n].url
            /\ Len(hist) = idx
            /\ idx = ev.idx0 + Cardinality(Indices("push"))

\* A click on the contact link whose callback throws.
C18_Witness ==
  /\ ev.kind = "click" /\ ev.target = "navContact"
  /\ CallbackThrows # {}
  /\ Location = Href(PathContact)
  /\ stack = <<>>

\* A redirect to the contact page whose callback throws.
ThrowInRedirect ==
  /\ CallbackThrows # {}
  /\ Indices("redirect") # {}
  /\ Location = Href(PathContact)
  /\ stack = <<>>

\* What instance i holds: its registry, whether its click listener is
\* attached, and its popstate listeners.
StateOf(i) ==
  << routesOf[i],
     \E k \in DOMAIN clickListeners : clickListeners[k] = HandleClickOf(i),
     SelectSeq(popListeners, LAMBDA l : l[2] = i) >>

\* C17: the state of a router is its own: the registry and the listeners of
\* an instance change only in a get, listen or close called on that instance,
\* never in a call on the other one nor while an event is handled, and every
\* callback an instance invokes is the one its own registry resolves for the
\* pathname.
C17_InstancesDoNotInterfere ==
  [][/\ \A i \in Instances :
          ~(Idle /\ ev'.inst = i) => StateOf(i)' = StateOf(i)
     /\ \A k \in DOMAIN log' :
          log'[k].op = "call" =>
            log'[k].cb = Resolves(routesOf'[log'[k].inst], PathnameOf(log'[k].url))
    ]_vars

\* Instance 2 starts while instance 1 is listening with home registered for
\* "/": instance 2 invokes what its own registry holds for "/".
C17_Witness ==
  /\ ev.kind = "listen" /\ ev.inst = 2
  /\ clickOn /\ Resolves(routes, "/") = "home"
  /\ \E k \in Indices("call") :
       /\ log[k].inst = 2
       /\ log[k].url = Href(PathHome)
       /\ log[k].cb = "toContact"

\* The navigation an event started from which navigation m descends: m
\* itself, or the root of the navigation whose callback made the redirect
\* that m belongs to.
RECURSIVE RootOf(_)
RootOf(m) ==
  IF log[m].by = 0 THEN m ELSE RootOf(log[log[log[m].by].by].by)

\* The navigations of the chain that root navigation n started, n included.
ChainNavs(n) == {m \in Indices("nav") : RootOf(m) = n}

\* The redirect hops of that chain.
ChainHops(n) == {r \in Indices("redirect") : RootOf(log[log[r].by].by) = n}

\* The positions of the log where operation op was logged on behalf of x.
LoggedFor(op, x) == {i \in Indices(op) : log[i].by = x}

\* Navigation n has returned.
Completed(n) == LoggedFor("navret", n) # {}

\* A chain went through the same pathname twice.
CycleSeen ==
  \E m1, m2 \in Indices("nav") :
    /\ m1 < m2
    /\ RootOf(m1) = RootOf(m2)
    /\ PathnameOf(log[m1].url) = PathnameOf(log[m2].url)

\* The entries the longest chain without a cycle pushes: one for the first
\* navigation and two for each hop, a chain without a cycle having at most
\* one navigation for each registered path.
LongestChainPushes == 1 + 2 * (Cardinality({r[1] : r \in ChainRegistrations}) - 1)

\* When the event began, the history had room for every navigation the event
\* has started so far to run its longest chain without a cycle.
HasRoom ==
  ev.idx0 + LongestChainPushes * Cardinality({n \in Indices("nav") : log[n].by = 0})
    <= limits.hist

\* No navigation invokes more than one callback, and no callback makes more
\* than one hop.  A completed navigation with k redirect hops made k + 1 navigations, to
\* pairwise different pathnames, each invoking once the callback the
\* registry resolves for it; every nested navigation is to the target of the
\* redirect that made it, is made by the callback of the navigation before
\* it in the chain, and has returned before that redirect and that callback
\* return; at the moment the chain completes the location is its last target.
ChainInOrder ==
  \A n \in Indices("nav") :
    /\ Cardinality(CallsOf(n)) <= 1
    /\ \A c \in CallsOf(n) : Cardinality(LoggedFor("redirect", c)) <= 1
    /\ (log[n].by = 0 /\ Completed(n)) =>
      LET navs == ChainNavs(n)
          last == CHOOSE m \in navs : \A k \in navs : k <= m
      IN /\ Cardinality(navs) = Cardinality(ChainHops(n)) + 1
         /\ \A m1, m2 \in navs :
              m1 # m2 => PathnameOf(log[m1].url) # PathnameOf(log[m2].url)
         /\ \A m \in navs :
              /\ Cardinality(CallsOf(m)) = 1
              /\ Cardinality(LoggedFor("navret", m)) = 1
              /\ \A c \in CallsOf(m) :
                   /\ log[c].cb = Resolves(routesOf[log[m].inst], PathnameOf(log[m].url))
                   /\ Cardinality(LoggedFor("ret", c)) = 1
         /\ \A m \in navs \ {n} :
              LET r == log[m].by
                  c == log[r].by
              IN /\ log[m].url = Href(log[r].url)
                 /\ \A k \in navs : k < m => k <= log[c].by
                 /\ \A a \in LoggedFor("navret", m), b \in LoggedFor("redirectret", r),
                       d \in LoggedFor("ret", c) : a < b /\ b < d
                 /\ LoggedFor("redirectret", r) # {}
         /\ (log[Len(log)].op = "navret" /\ log[Len(log)].by = n) =>
              Location = log[last].url

\* C21: a navigation whose callbacks redirect along a chain without a cycle
\* terminates, and a cycle is the only way it does not: a handler that runs,
\* the history having room for its chain, eventually has returned (or
\* thrown) unless its chain went through a pathname twice; and a chain that
\* completes has run its k + 1 callbacks in chain order, properly nested,
\* never through a cycle, and ends with the location at its last target.
C21_ChainsTerminate ==
  /\ []ChainInOrder
  /\ (stack # <<>> /\ HasRoom) ~> (stack = <<>> \/ CycleSeen)

\* The first pass of listen went from "/" over /contact to /posts: two hops,
\* three callbacks, and the posts page is shown at /posts.
C21_Witness ==
  /\ ev.kind = "listen"
  /\ NavigationCompleted /\ CompletedNav = 1
  /\ Cardinality(ChainHops(1)) = 2
  /\ Cardinality(Indices("call")) = 3
  /\ Location = Href(PathPosts)
  /\ shown = <<"Post", None>>

\* A chain that runs from "/" over /contact back to "/".
CycleReached == CycleSeen /\ stack # <<>>

====
